---- MODULE Spec2Model ----
(***************************************************************************)
(* Verification model of the stdio <-> network bridges of mcp-gateway:     *)
(*   - MCPNetworkBridge  (src/python_tools/remote_claude_mcp_configs.py),  *)
(*     the raw duplex TCP bridge: main thread socket -> stdout, daemon     *)
(*     thread stdin -> socket;                                             *)
(*   - MCPStreamingClient (src/mcp_streaming_client.py), the line-by-line  *)
(*     HTTP bridge.                                                        *)
(* The two programs are separate processes: each has its own               *)
(* specification, which leaves the other program's variables untouched.   *)
(***************************************************************************)
EXTENDS Integers, Sequences, FiniteSets, TLC

VARIABLES
    \* ---- TCP bridge (MCPNetworkBridge) ----
    sock,        \* self.socket: "none" | "created" | "connected" | "closed"
    closeCount,  \* number of socket.close() calls made
    mainPc,      \* position of the main thread in run()
    mainExc,     \* exception pending while run()'s finally block executes
    data,        \* forward_socket_to_stdio: the chunk recv() returned
    thrPc,       \* position of the daemon thread (forward_stdio_to_socket)
    line,        \* forward_stdio_to_socket: the line readline() returned
    stdinData,   \* every byte the parent process has written to our stdin
    stdinPos,    \* how many of them readline() has consumed
    stdinEOF,    \* the parent closed our stdin
    netData,     \* every byte the remote peer has sent
    netPos,      \* how many of them recv() has returned
    peerClosed,  \* the remote peer closed the connection
    sockSent,    \* every byte handed to the network by sendall()
    stdoutBuf,   \* bytes in sys.stdout.buffer, written but not flushed
    stdoutOut,   \* bytes flushed to the stdout file descriptor
    tcpErr,      \* diagnostics printed to stderr
    proc,        \* "running" | "exited"
    exitCode,    \* exit status of the process once exited
    interrupted, \* a KeyboardInterrupt was delivered to the main thread
    connects,    \* number of connect() calls made
    \* ---- HTTP bridge (MCPStreamingClient) ----
    input,       \* the lines of stdin, in order, up to end-of-input
    pos,         \* how many of them `for line in sys.stdin` has yielded
    httpPc,      \* position in run()
    httpLine,    \* run(): line, after line.strip()
    request,     \* run(): request, the parsed input line
    response,    \* run(): response, what forward_request returned
    session,     \* self.session: "open" | "closed"
    sessCloses,  \* number of session.close() calls made
    posts,       \* the POST requests sent, in order
    replies,     \* what the remote end answered to each
    httpOut,     \* lines printed to stdout
    httpErr,     \* diagnostics printed to stderr
    httpExit,    \* how run()'s loop was left
    urlArg,      \* the url argument of the command line, as characters
    baseUrl,     \* self.base_url
    \* ---- GatewayManager (docker_mcp_gateway_manager.py) ----
    gwFile,      \* content of the PID file: "absent" | "garbage" | a pid
    gwProcs,     \* the processes start_gateway launched, in order
    gwOwn,       \* pids of other live processes this user may signal
    gwForeign,   \* pids of live processes this user may not signal
    gwLast,      \* the last call of a GatewayManager method and its outcome
    \* ---- media.py, import_tv_shows ----
    medPc,       \* position in import_tv_shows
    medLibrary,  \* titles of the series in Sonarr when the run starts
    medLoaded,   \* get_existing_series() got Sonarr's answer
    medCollected, \* all_shows as collected from the sources
    medShows,    \* all_shows after the removal of duplicates
    medExisting, \* existing_titles
    medI,        \* number of titles of all_shows the loop is through with
    medCount,    \* the counters added, skipped, failed, filtered_out
    medCalls,    \* the add_series calls made: title and outcome
    \* ---- sonarr_importer.py, SonarrImporter.import_shows ----
    sonPc,       \* position in import_shows
    sonList,     \* show_list
    sonI,        \* i of `for i, show_title in enumerate(show_list, 1)`
    sonCount,    \* the counters added, skipped, failed
    sonLog       \* the Sonarr requests and the sleeps, in order

tcpVars == <<sock, closeCount, mainPc, mainExc, data, thrPc, line, stdinData,
             stdinPos, stdinEOF, netData, netPos, peerClosed, sockSent,
             stdoutBuf, stdoutOut, tcpErr, proc, exitCode, interrupted,
             connects>>

httpVars == <<input, pos, httpPc, httpLine, request, response, session,
              sessCloses, posts, replies, httpOut, httpErr, httpExit, urlArg,
              baseUrl>>

gwVars == <<gwFile, gwProcs, gwOwn, gwForeign, gwLast>>

medVars == <<medPc, medLibrary, medLoaded, medCollected, medShows,
             medExisting, medI, medCount, medCalls>>

sonVars == <<sonPc, sonList, sonI, sonCount, sonLog>>

vars == <<tcpVars, httpVars, gwVars, medVars, sonVars>>

\* What each program leaves alone: the variables of the other programs.
notTcpVars == <<httpVars, gwVars, medVars, sonVars>>

notHttpVars == <<tcpVars, gwVars, medVars, sonVars>>

notGwVars == <<tcpVars, httpVars, medVars, sonVars>>

notMedVars == <<tcpVars, httpVars, gwVars, sonVars>>

notSonVars == <<tcpVars, httpVars, gwVars, medVars>>

----------------------------------------------------------------------------
\* Bounds of the model.
MaxStdin == 3      \* bytes the parent writes to stdin
MaxNet == 2        \* bytes the remote peer sends
MaxLines == 3      \* lines on the HTTP bridge's stdin
MaxPid == 3        \* process ids of the machine
MaxStarts == 2     \* gateway processes start_gateway launches
MaxShows == 3      \* titles collected for an import

\* Program constant: the buffer size of socket.recv(4096).
RecvSize == 4096

NL == "\n"
Bytes == {"a", NL}

----------------------------------------------------------------------------
\* Helpers on byte sequences.
Min(a, b) == IF a < b THEN a ELSE b

Take(s, n) == SubSeq(s, 1, n)

Drop(s, n) == SubSeq(s, n + 1, Len(s))

Range(s) == {s[i] : i \in 1..Len(s)}

IsPrefix(s, t) == Len(s) <= Len(t) /\ Take(t, Len(s)) = s

\* Index of the first newline of s, 0 when there is none.
FirstNL(s) ==
    IF \E i \in 1..Len(s) : s[i] = NL
    THEN CHOOSE i \in 1..Len(s) : s[i] = NL /\ \A j \in 1..(i - 1) : s[j] # NL
    ELSE 0

\* The unread part of stdin and of the socket's receive queue.
StdinAvail == Drop(stdinData, stdinPos)

NetAvail == Drop(netData, netPos)

\* sys.stdin.buffer.readline(): blocks until a newline or end-of-stream;
\* returns the bytes up to and including the newline, or at end-of-stream
\* whatever is left (b"" when nothing is).
ReadlineReady(avail, eof) == FirstNL(avail) > 0 \/ eof

Readline(avail, eof) ==
    IF FirstNL(avail) > 0 THEN Take(avail, FirstNL(avail)) ELSE avail

\* socket.recv(bufsize): blocks until data or the peer's close; returns a
\* non-empty prefix of the queue of at most bufsize bytes, or b"" at close.
RecvReady(avail, closed) == Len(avail) > 0 \/ closed

RecvSizes(avail, bufsize) == 1..Min(Len(avail), bufsize)

\* A bridge that sent text lines with the line end stripped.
SendallStripped(sent, l) == sent \o SelectSeq(l, LAMBDA b : b # NL)

\* self.socket.sendall(line): the bytes of the line go out as they are.
Sendall(sent, l) == sent \o l

\* sys.stdout.buffer.write(data): the chunk is appended as it is.
StdoutWrite(buf, d) == buf \o d

----------------------------------------------------------------------------
\* HTTP bridge: text and JSON.
\* A line of text is a sequence of lexemes: punctuation, literals, white
\* space, and "x" for a character no JSON text may hold there.
Whitespace == {" ", NL}

NumToks == {"0", "1"}

StrToks == {"\"\"", "\"id\"", "\"ok\""}

NumOf(tok) == IF tok = "0" THEN 0 ELSE 1

NumTok(n) == IF n = 0 THEN "0" ELSE "1"

StrOf(tok) == CASE tok = "\"\"" -> "" [] tok = "\"id\"" -> "id" [] OTHER -> "ok"

StrTok(str) == CASE str = "" -> "\"\"" [] str = "id" -> "\"id\"" [] OTHER -> "\"ok\""

\* Python values of JSON texts: None, bool, int, str, list, dict (a dict
\* keeps its keys in insertion order).
JNull == [t |-> "null"]

JBool(b) == [t |-> "bool", b |-> b]

JNum(n) == [t |-> "num", n |-> n]

JStr(str) == [t |-> "str", s |-> str]

JArr(items) == [t |-> "arr", items |-> items]

JObj(members) == [t |-> "obj", members |-> members]

\* d[k] = v on a dict held as a sequence of members.
DictSet(members, k, v) ==
    IF \E i \in 1..Len(members) : members[i].k = k
    THEN [i \in 1..Len(members) |->
             IF members[i].k = k THEN [k |-> k, v |-> v] ELSE members[i]]
    ELSE Append(members, [k |-> k, v |-> v])

\* str.strip(): white space removed at both ends.
RECURSIVE LStrip(_)
LStrip(t) == IF t # <<>> /\ Head(t) \in Whitespace THEN LStrip(Tail(t)) ELSE t

RECURSIVE RStrip(_)
RStrip(t) ==
    IF t # <<>> /\ t[Len(t)] \in Whitespace THEN RStrip(Take(t, Len(t) - 1)) ELSE t

Strip(t) == RStrip(LStrip(t))

\* json.loads(): a recursive-descent parse; ok = FALSE is JSONDecodeError.
ParseFail == [ok |-> FALSE, v |-> JNull, rest |-> <<>>]

ParseOk(v, rest) == [ok |-> TRUE, v |-> v, rest |-> rest]

RECURSIVE ParseValue(_), ParseElems(_, _), ParseMembers(_, _)
ParseValue(t0) ==
    LET t == LStrip(t0) IN
    IF t = <<>> THEN ParseFail
    ELSE LET h == Head(t)
             r == Tail(t)
         IN  CASE h = "null" -> ParseOk(JNull, r)
               [] h = "true" -> ParseOk(JBool(TRUE), r)
               [] h = "false" -> ParseOk(JBool(FALSE), r)
               [] h \in NumToks -> ParseOk(JNum(NumOf(h)), r)
               [] h \in StrToks -> ParseOk(JStr(StrOf(h)), r)
               [] h = "[" ->
                    IF LStrip(r) # <<>> /\ Head(LStrip(r)) = "]"
                    THEN ParseOk(JArr(<<>>), Tail(LStrip(r)))
                    ELSE ParseElems(r, <<>>)
               [] h = "{" ->
                    IF LStrip(r) # <<>> /\ Head(LStrip(r)) = "}"
                    THEN ParseOk(JObj(<<>>), Tail(LStrip(r)))
                    ELSE ParseMembers(r, <<>>)
               [] OTHER -> ParseFail

ParseElems(t, acc) ==
    LET p == ParseValue(t) IN
    IF ~p.ok THEN ParseFail
    ELSE LET r == LStrip(p.rest) IN
         IF r = <<>> THEN ParseFail
         ELSE CASE Head(r) = "," -> ParseElems(Tail(r), Append(acc, p.v))
                [] Head(r) = "]" -> ParseOk(JArr(Append(acc, p.v)), Tail(r))
                [] OTHER -> ParseFail

ParseMembers(t0, acc) ==
    LET t == LStrip(t0) IN
    IF t = <<>> \/ Head(t) \notin StrToks THEN ParseFail
    ELSE LET k == StrOf(Head(t))
             c == LStrip(Tail(t))
         IN  IF c = <<>> \/ Head(c) # ":" THEN ParseFail
             ELSE LET p == ParseValue(Tail(c)) IN
                  IF ~p.ok THEN ParseFail
                  ELSE LET r == LStrip(p.rest) IN
                       IF r = <<>> THEN ParseFail
                       ELSE CASE Head(r) = "," ->
                                     ParseMembers(Tail(r), DictSet(acc, k, p.v))
                              [] Head(r) = "}" ->
                                     ParseOk(JObj(DictSet(acc, k, p.v)), Tail(r))
                              [] OTHER -> ParseFail

JsonLoads(t) ==
    LET p == ParseValue(t) IN
    IF p.ok /\ LStrip(p.rest) = <<>>
    THEN [ok |-> TRUE, v |-> p.v]
    ELSE [ok |-> FALSE, v |-> JNull]

\* json.dumps(): the default separators ", " and ": ".
RECURSIVE Dumps(_), DumpElems(_), DumpMembers(_)
Dumps(v) ==
    CASE v.t = "null" -> <<"null">>
      [] v.t = "bool" -> IF v.b THEN <<"true">> ELSE <<"false">>
      [] v.t = "num" -> <<NumTok(v.n)>>
      [] v.t = "str" -> <<StrTok(v.s)>>
      [] v.t = "arr" -> <<"[">> \o DumpElems(v.items) \o <<"]">>
      [] OTHER -> <<"{">> \o DumpMembers(v.members) \o <<"}">>

DumpElems(items) ==
    IF items = <<>> THEN <<>>
    ELSE Dumps(Head(items))
             \o (IF Len(items) > 1 THEN <<",", " ">> ELSE <<>>)
             \o DumpElems(Tail(items))

DumpMembers(members) ==
    IF members = <<>> THEN <<>>
    ELSE <<StrTok(Head(members).k), ":", " ">> \o Dumps(Head(members).v)
             \o (IF Len(members) > 1 THEN <<",", " ">> ELSE <<>>)
             \o DumpMembers(Tail(members))

\* The truth value Python gives a value in `if response:`.
Truthy(v) ==
    CASE v.t = "null" -> FALSE
      [] v.t = "bool" -> v.b
      [] v.t = "num" -> v.n # 0
      [] v.t = "str" -> v.s # ""
      [] v.t = "arr" -> v.items # <<>>
      [] OTHER -> v.members # <<>>

----------------------------------------------------------------------------
\* The TCP bridge is not running.
TcpOff ==
    /\ sock = "none"
    /\ closeCount = 0
    /\ mainPc = "off"
    /\ mainExc = "none"
    /\ data = <<>>
    /\ thrPc = "off"
    /\ line = <<>>
    /\ stdinData = <<>>
    /\ stdinPos = 0
    /\ stdinEOF = FALSE
    /\ netData = <<>>
    /\ netPos = 0
    /\ peerClosed = FALSE
    /\ sockSent = <<>>
    /\ stdoutBuf = <<>>
    /\ stdoutOut = <<>>
    /\ tcpErr = <<>>
    /\ proc = "off"
    /\ exitCode = 0
    /\ interrupted = FALSE
    /\ connects = 0

\* The HTTP bridge is not running.
HttpOff ==
    /\ input = <<>>
    /\ pos = 0
    /\ httpPc = "off"
    /\ httpLine = <<>>
    /\ request = JNull
    /\ response = JNull
    /\ session = "none"
    /\ sessCloses = 0
    /\ posts = <<>>
    /\ replies = <<>>
    /\ httpOut = <<>>
    /\ httpErr = <<>>
    /\ httpExit = "none"
    /\ urlArg = <<>>
    /\ baseUrl = <<>>

\* No GatewayManager call has been made or will be.
NoCall(op) == [op |-> op, ret |-> "none", was |-> "absent", sig |-> 0,
               unlinked |-> FALSE]

GwOff ==
    /\ gwFile = [kind |-> "absent", pid |-> 0]
    /\ gwProcs = <<>>
    /\ gwOwn = {}
    /\ gwForeign = {}
    /\ gwLast = NoCall("off")

\* import_tv_shows is not run.
MedOff ==
    /\ medPc = "off"
    /\ medLibrary = {}
    /\ medLoaded = FALSE
    /\ medCollected = <<>>
    /\ medShows = <<>>
    /\ medExisting = {}
    /\ medI = 0
    /\ medCount = [added |-> 0, skipped |-> 0, failed |-> 0, filtered_out |-> 0]
    /\ medCalls = <<>>

\* import_shows is not run.
SonOff ==
    /\ sonPc = "off"
    /\ sonList = <<>>
    /\ sonI = 0
    /\ sonCount = [added |-> 0, skipped |-> 0, failed |-> 0]
    /\ sonLog = <<>>

\* One program is run, the others are not.
OnlyTcp == HttpOff /\ GwOff /\ MedOff /\ SonOff

OnlyHttp == TcpOff /\ GwOff /\ MedOff /\ SonOff

OnlyGw == TcpOff /\ HttpOff /\ MedOff /\ SonOff

OnlyMed == TcpOff /\ HttpOff /\ GwOff /\ SonOff

OnlySon == TcpOff /\ HttpOff /\ GwOff /\ MedOff

\* TCP bridge: state after MCPNetworkBridge.__init__.
InitTcp ==
    /\ OnlyTcp
    /\ sock = "none"
    /\ closeCount = 0
    /\ mainPc = "connect"
    /\ mainExc = "none"
    /\ data = <<>>
    /\ thrPc = "unstarted"
    /\ line = <<>>
    /\ stdinData = <<>>
    /\ stdinPos = 0
    /\ stdinEOF = FALSE
    /\ netData = <<>>
    /\ netPos = 0
    /\ peerClosed = FALSE
    /\ sockSent = <<>>
    /\ stdoutBuf = <<>>
    /\ stdoutOut = <<>>
    /\ tcpErr = <<>>
    /\ proc = "running"
    /\ exitCode = 0
    /\ interrupted = FALSE
    /\ connects = 0

\* ---- the environment: the parent process and the remote peer ----
StdinSupply ==
    /\ UNCHANGED notTcpVars
    /\ proc = "running" /\ ~stdinEOF /\ Len(stdinData) < MaxStdin
    /\ \E b \in Bytes : stdinData' = Append(stdinData, b)
    /\ UNCHANGED <<sock, closeCount, mainPc, mainExc, data, thrPc, line,
                   stdinPos, stdinEOF, netData, netPos, peerClosed, sockSent,
                   stdoutBuf, stdoutOut, tcpErr, proc, exitCode, interrupted,
                   connects>>

StdinClose ==
    /\ UNCHANGED notTcpVars
    /\ proc = "running" /\ ~stdinEOF
    /\ stdinEOF' = TRUE
    /\ UNCHANGED <<sock, closeCount, mainPc, mainExc, data, thrPc, line,
                   stdinData, stdinPos, netData, netPos, peerClosed, sockSent,
                   stdoutBuf, stdoutOut, tcpErr, proc, exitCode, interrupted,
                   connects>>

RemoteSend ==
    /\ UNCHANGED notTcpVars
    /\ proc = "running" /\ sock = "connected"
    /\ ~peerClosed /\ Len(netData) < MaxNet
    /\ \E b \in Bytes : netData' = Append(netData, b)
    /\ UNCHANGED <<sock, closeCount, mainPc, mainExc, data, thrPc, line,
                   stdinData, stdinPos, stdinEOF, netPos, peerClosed,
                   sockSent, stdoutBuf, stdoutOut, tcpErr, proc, exitCode,
                   interrupted, connects>>

RemoteClose ==
    /\ UNCHANGED notTcpVars
    /\ proc = "running" /\ sock = "connected" /\ ~peerClosed
    /\ peerClosed' = TRUE
    /\ UNCHANGED <<sock, closeCount, mainPc, mainExc, data, thrPc, line,
                   stdinData, stdinPos, stdinEOF, netData, netPos, sockSent,
                   stdoutBuf, stdoutOut, tcpErr, proc, exitCode, interrupted,
                   connects>>

\* ---- MCPNetworkBridge.connect / run ----
\* connect() succeeds: run() goes on to its try block.
ConnectOk ==
    /\ UNCHANGED notTcpVars
    /\ proc = "running" /\ mainPc = "connect"
    /\ connects' = connects + 1
    /\ sock' = "connected"
    /\ mainPc' = "start"
    /\ UNCHANGED <<closeCount, mainExc, data, thrPc, line, stdinData,
                   stdinPos, stdinEOF, netData, netPos, peerClosed, sockSent,
                   stdoutBuf, stdoutOut, tcpErr, proc, exitCode, interrupted>>

\* A bridge that prints the diagnostic of a failed connect() and goes on.
ConnectFailIgnored ==
    /\ UNCHANGED notTcpVars
    /\ proc = "running" /\ mainPc = "connect"
    /\ connects' = connects + 1
    /\ \E s \in {"none", "created"} : sock' = s
    /\ tcpErr' = Append(tcpErr, "Connection failed")
    /\ mainPc' = "start"
    /\ UNCHANGED <<closeCount, mainExc, data, thrPc, line, stdinData,
                   stdinPos, stdinEOF, netData, netPos, peerClosed, sockSent,
                   stdoutBuf, stdoutOut, proc, exitCode, interrupted>>

\* connect() fails with an Exception: socket.socket() raised (self.socket
\* stays None) or socket.connect() raised (self.socket holds the unconnected
\* socket); the diagnostic is printed and run() calls sys.exit(1).
ConnectFail ==
    /\ UNCHANGED notTcpVars
    /\ proc = "running" /\ mainPc = "connect"
    /\ connects' = connects + 1
    /\ \E s \in {"none", "created"} : sock' = s
    /\ tcpErr' = Append(tcpErr, "Connection failed")
    /\ mainPc' = "exit1"
    /\ UNCHANGED <<closeCount, mainExc, data, thrPc, line, stdinData,
                   stdinPos, stdinEOF, netData, netPos, peerClosed, sockSent,
                   stdoutBuf, stdoutOut, proc, exitCode, interrupted>>

\* KeyboardInterrupt while connect() blocks: not an Exception, so connect()
\* does not catch it, and the call is outside run()'s try block.
ConnectInterrupt ==
    /\ UNCHANGED notTcpVars
    /\ proc = "running" /\ mainPc = "connect"
    /\ connects' = connects + 1
    /\ interrupted' = TRUE
    /\ \E s \in {"none", "created"} : sock' = s
    /\ mainExc' = "KeyboardInterrupt"
    /\ mainPc' = "raised"
    /\ UNCHANGED <<closeCount, data, thrPc, line, stdinData, stdinPos,
                   stdinEOF, netData, netPos, peerClosed, sockSent, stdoutBuf,
                   stdoutOut, tcpErr, proc, exitCode>>

\* A bridge that starts the stdin thread and then joins it.
MainStartJoin ==
    /\ UNCHANGED notTcpVars
    /\ proc = "running" /\ mainPc = "start"
    /\ thrPc' = "readline"
    /\ mainPc' = "join"
    /\ UNCHANGED <<sock, closeCount, mainExc, data, line, stdinData, stdinPos,
                   stdinEOF, netData, netPos, peerClosed, sockSent, stdoutBuf,
                   stdoutOut, tcpErr, proc, exitCode, interrupted, connects>>

\* stdin_thread.start(): the daemon thread begins forward_stdio_to_socket and
\* the main thread enters forward_socket_to_stdio.
MainStart ==
    /\ UNCHANGED notTcpVars
    /\ proc = "running" /\ mainPc = "start"
    /\ thrPc' = "readline"
    /\ mainPc' = "recv"
    /\ UNCHANGED <<sock, closeCount, mainExc, data, line, stdinData, stdinPos,
                   stdinEOF, netData, netPos, peerClosed, sockSent, stdoutBuf,
                   stdoutOut, tcpErr, proc, exitCode, interrupted, connects>>

\* stdin_thread.start() raises RuntimeError (no thread can be started): the
\* finally block runs and the exception leaves run().
MainStartFail ==
    /\ UNCHANGED notTcpVars
    /\ proc = "running" /\ mainPc = "start"
    /\ mainExc' = "RuntimeError"
    /\ mainPc' = "finally"
    /\ UNCHANGED <<sock, closeCount, data, thrPc, line, stdinData, stdinPos,
                   stdinEOF, netData, netPos, peerClosed, sockSent, stdoutBuf,
                   stdoutOut, tcpErr, proc, exitCode, interrupted, connects>>

\* ---- forward_socket_to_stdio (main thread) ----
\* One pass of the loop head: the None test, recv(4096), the empty test.
MainRecv ==
    /\ UNCHANGED notTcpVars
    /\ proc = "running" /\ mainPc = "recv"
    /\ IF sock = "none"
       THEN /\ tcpErr' = Append(tcpErr, "Socket is not connected.")
            /\ mainPc' = "finally"
            /\ UNCHANGED <<data, netPos>>
       ELSE /\ RecvReady(NetAvail, peerClosed)
            /\ IF Len(NetAvail) = 0
               THEN /\ data' = <<>>
                    /\ mainPc' = "finally"
                    /\ UNCHANGED netPos
               ELSE \E n \in RecvSizes(NetAvail, RecvSize) :
                        /\ data' = Take(NetAvail, n)
                        /\ netPos' = netPos + n
                        /\ mainPc' = "write"
            /\ UNCHANGED tcpErr
    /\ UNCHANGED <<sock, closeCount, mainExc, thrPc, line, stdinData,
                   stdinPos, stdinEOF, netData, peerClosed, sockSent,
                   stdoutBuf, stdoutOut, proc, exitCode, interrupted,
                   connects>>

\* A bridge whose main thread tells the peer of a failed recv().
MainRecvErrorNotify ==
    /\ UNCHANGED notTcpVars
    /\ proc = "running" /\ mainPc = "recv" /\ sock = "connected"
    /\ tcpErr' = Append(tcpErr, "Error forwarding to stdio")
    /\ sockSent' = Sendall(sockSent, <<NL>>)
    /\ mainPc' = "finally"
    /\ UNCHANGED <<sock, closeCount, mainExc, data, thrPc, line, stdinData,
                   stdinPos, stdinEOF, netData, netPos, peerClosed,
                   stdoutBuf, stdoutOut, proc, exitCode, interrupted,
                   connects>>

\* recv() raises (connection reset): caught by `except Exception`.
MainRecvError ==
    /\ UNCHANGED notTcpVars
    /\ proc = "running" /\ mainPc = "recv" /\ sock = "connected"
    /\ tcpErr' = Append(tcpErr, "Error forwarding to stdio")
    /\ mainPc' = "finally"
    /\ UNCHANGED <<sock, closeCount, mainExc, data, thrPc, line, stdinData,
                   stdinPos, stdinEOF, netData, netPos, peerClosed, sockSent,
                   stdoutBuf, stdoutOut, proc, exitCode, interrupted,
                   connects>>

\* A bridge that writes each chunk and goes back to recv() without a flush.
MainWriteUnflushed ==
    /\ UNCHANGED notTcpVars
    /\ proc = "running" /\ mainPc = "write"
    /\ stdoutBuf' = StdoutWrite(stdoutBuf, data)
    /\ mainPc' = "recv"
    /\ UNCHANGED <<sock, closeCount, mainExc, data, thrPc, line, stdinData,
                   stdinPos, stdinEOF, netData, netPos, peerClosed, sockSent,
                   stdoutOut, tcpErr, proc, exitCode, interrupted, connects>>

\* sys.stdout.buffer.write(data)
MainWrite ==
    /\ UNCHANGED notTcpVars
    /\ proc = "running" /\ mainPc = "write"
    /\ stdoutBuf' = StdoutWrite(stdoutBuf, data)
    /\ mainPc' = "flush"
    /\ UNCHANGED <<sock, closeCount, mainExc, data, thrPc, line, stdinData,
                   stdinPos, stdinEOF, netData, netPos, peerClosed, sockSent,
                   stdoutOut, tcpErr, proc, exitCode, interrupted, connects>>

\* sys.stdout.buffer.flush()
MainFlush ==
    /\ UNCHANGED notTcpVars
    /\ proc = "running" /\ mainPc = "flush"
    /\ stdoutOut' = stdoutOut \o stdoutBuf
    /\ stdoutBuf' = <<>>
    /\ mainPc' = "recv"
    /\ UNCHANGED <<sock, closeCount, mainExc, data, thrPc, line, stdinData,
                   stdinPos, stdinEOF, netData, netPos, peerClosed, sockSent,
                   tcpErr, proc, exitCode, interrupted, connects>>

\* The flush raises (stdout is a broken pipe) after writing some proper
\* prefix of the buffer: caught by `except Exception`.
MainFlushError ==
    /\ UNCHANGED notTcpVars
    /\ proc = "running" /\ mainPc = "flush"
    /\ \E k \in 0..(Len(stdoutBuf) - 1) :
           /\ stdoutOut' = stdoutOut \o Take(stdoutBuf, k)
           /\ stdoutBuf' = Drop(stdoutBuf, k)
    /\ tcpErr' = Append(tcpErr, "Error forwarding to stdio")
    /\ mainPc' = "finally"
    /\ UNCHANGED <<sock, closeCount, mainExc, data, thrPc, line, stdinData,
                   stdinPos, stdinEOF, netData, netPos, peerClosed, sockSent,
                   proc, exitCode, interrupted, connects>>

\* KeyboardInterrupt in the main thread inside run()'s try block: not caught
\* by forward_socket_to_stdio's `except Exception`, caught by run()'s
\* `except KeyboardInterrupt: pass`.
MainInterrupt ==
    /\ UNCHANGED notTcpVars
    /\ proc = "running" /\ mainPc \in {"start", "recv", "write", "flush"}
    /\ interrupted' = TRUE
    /\ mainPc' = "finally"
    /\ UNCHANGED <<sock, closeCount, mainExc, data, thrPc, line, stdinData,
                   stdinPos, stdinEOF, netData, netPos, peerClosed, sockSent,
                   stdoutBuf, stdoutOut, tcpErr, proc, exitCode, connects>>

\* A bridge whose close() follows the try statement instead of sitting in a
\* finally block: an exception on its way out skips it.
MainCloseAfterTry ==
    /\ UNCHANGED notTcpVars
    /\ proc = "running" /\ mainPc = "finally"
    /\ IF sock # "none" /\ mainExc = "none"
       THEN sock' = "closed" /\ closeCount' = closeCount + 1
       ELSE UNCHANGED <<sock, closeCount>>
    /\ mainPc' = IF mainExc = "none" THEN "returned" ELSE "raised"
    /\ UNCHANGED <<mainExc, data, thrPc, line, stdinData, stdinPos, stdinEOF,
                   netData, netPos, peerClosed, sockSent, stdoutBuf,
                   stdoutOut, tcpErr, proc, exitCode, interrupted, connects>>

\* run()'s finally block: `if self.socket: self.socket.close()`; then run()
\* returns, or the pending exception goes on to the caller.
MainFinally ==
    /\ UNCHANGED notTcpVars
    /\ proc = "running" /\ mainPc = "finally"
    /\ IF sock # "none"
       THEN sock' = "closed" /\ closeCount' = closeCount + 1
       ELSE UNCHANGED <<sock, closeCount>>
    /\ mainPc' = IF mainExc = "none" THEN "returned" ELSE "raised"
    /\ UNCHANGED <<mainExc, data, thrPc, line, stdinData, stdinPos, stdinEOF,
                   netData, netPos, peerClosed, sockSent, stdoutBuf,
                   stdoutOut, tcpErr, proc, exitCode, interrupted, connects>>

\* The main thread is through: the interpreter exits and takes the daemon
\* thread with it. Status 0 after run() returned, nonzero after sys.exit(1)
\* or an exception that left run().
ExitStatus(pc) == IF pc = "returned" THEN 0 ELSE 1

\* Status of a process that abort() ended (128 + SIGABRT).
AbortStatus == 134

\* The statuses the exit can give. A daemon thread that is still inside
\* sys.stdin.buffer.readline() holds the lock of the stdin buffer; when the
\* interpreter finalizes it closes sys.stdin, waits one second for that lock
\* and, not getting it, ends in "Fatal Python error: could not acquire lock
\* for <_io.BufferedReader name='<stdin>'> at interpreter shutdown" and
\* abort(). The exit is a normal one if the readline returns in time.
ExitStatuses(pc, thr) ==
    IF thr = "readline" THEN {ExitStatus(pc), AbortStatus}
    ELSE {ExitStatus(pc)}

ProcessExit ==
    /\ UNCHANGED notTcpVars
    /\ proc = "running" /\ mainPc \in {"returned", "raised", "exit1"}
    /\ proc' = "exited"
    /\ \E c \in ExitStatuses(mainPc, thrPc) : exitCode' = c
    /\ thrPc' = IF thrPc \in {"readline", "send"} THEN "killed" ELSE thrPc
    /\ UNCHANGED <<sock, closeCount, mainPc, mainExc, data, line, stdinData,
                   stdinPos, stdinEOF, netData, netPos, peerClosed, sockSent,
                   stdoutBuf, stdoutOut, tcpErr, interrupted, connects>>

\* ---- forward_stdio_to_socket (daemon thread) ----
\* line = sys.stdin.buffer.readline(); `if not line: break`
ThrReadline ==
    /\ UNCHANGED notTcpVars
    /\ proc = "running" /\ thrPc = "readline"
    /\ ReadlineReady(StdinAvail, stdinEOF)
    /\ line' = Readline(StdinAvail, stdinEOF)
    /\ stdinPos' = stdinPos + Len(line')
    /\ thrPc' = IF line' = <<>> THEN "done" ELSE "send"
    /\ UNCHANGED <<sock, closeCount, mainPc, mainExc, data, stdinData,
                   stdinEOF, netData, netPos, peerClosed, sockSent, stdoutBuf,
                   stdoutOut, tcpErr, proc, exitCode, interrupted, connects>>

\* `if self.socket is not None: self.socket.sendall(line)`, else the
\* diagnostic and break. On a socket the main thread has closed meanwhile
\* sendall raises OSError, which `except Exception` catches.
ThrSend ==
    /\ UNCHANGED notTcpVars
    /\ proc = "running" /\ thrPc = "send"
    /\ CASE sock = "connected" ->
               /\ sockSent' = Sendall(sockSent, line)
               /\ thrPc' = "readline"
               /\ UNCHANGED tcpErr
         [] sock = "none" ->
               /\ tcpErr' = Append(tcpErr, "Socket is not connected.")
               /\ thrPc' = "done"
               /\ UNCHANGED sockSent
         [] OTHER ->
               /\ tcpErr' = Append(tcpErr, "Error forwarding to socket")
               /\ thrPc' = "done"
               /\ UNCHANGED sockSent
    /\ UNCHANGED <<sock, closeCount, mainPc, mainExc, data, line, stdinData,
                   stdinPos, stdinEOF, netData, netPos, peerClosed, stdoutBuf,
                   stdoutOut, proc, exitCode, interrupted, connects>>

\* A bridge that catches a failed sendall() inside the loop and reads on.
ThrSendErrorGoesOn ==
    /\ UNCHANGED notTcpVars
    /\ proc = "running" /\ thrPc = "send" /\ sock = "connected"
    /\ \E k \in 0..(Len(line) - 1) : sockSent' = Sendall(sockSent, Take(line, k))
    /\ tcpErr' = Append(tcpErr, "Error forwarding to socket")
    /\ thrPc' = "readline"
    /\ UNCHANGED <<sock, closeCount, mainPc, mainExc, data, line, stdinData,
                   stdinPos, stdinEOF, netData, netPos, peerClosed, stdoutBuf,
                   stdoutOut, proc, exitCode, interrupted, connects>>

\* sendall() raises on the connected socket (broken pipe, reset) after some
\* proper prefix of the line went out: caught by `except Exception`.
ThrSendError ==
    /\ UNCHANGED notTcpVars
    /\ proc = "running" /\ thrPc = "send" /\ sock = "connected"
    /\ \E k \in 0..(Len(line) - 1) : sockSent' = Sendall(sockSent, Take(line, k))
    /\ tcpErr' = Append(tcpErr, "Error forwarding to socket")
    /\ thrPc' = "done"
    /\ UNCHANGED <<sock, closeCount, mainPc, mainExc, data, line, stdinData,
                   stdinPos, stdinEOF, netData, netPos, peerClosed, stdoutBuf,
                   stdoutOut, proc, exitCode, interrupted, connects>>

\* ---- specifications of the TCP bridge ----
TcpEnv == StdinSupply \/ StdinClose \/ RemoteSend \/ RemoteClose

\* What the main thread does when nothing fails.
TcpMainStep ==
    \/ ConnectOk
    \/ MainStart
    \/ MainRecv
    \/ MainWrite
    \/ MainFlush
    \/ MainFinally
    \/ ProcessExit

TcpThrStep == ThrReadline \/ ThrSend

\* Failures and interrupts, which the environment decides.
TcpFault ==
    \/ ConnectFail
    \/ ConnectInterrupt
    \/ MainStartFail
    \/ MainRecvError
    \/ MainFlushError
    \/ MainInterrupt
    \/ ThrSendError

NextTcp == TcpEnv \/ TcpMainStep \/ TcpThrStep \/ TcpFault

SpecTcp == InitTcp /\ [][NextTcp]_vars

\* Both threads are scheduled (blocking calls release the interpreter lock);
\* nothing is assumed of the parent process, the peer, or failures.
FairSpecTcp ==
    /\ InitTcp
    /\ [][NextTcp]_vars
    /\ WF_vars(TcpMainStep)
    /\ WF_vars(TcpThrStep)

\* The bridge on a run without failures and interrupts.
NextTcpLive == TcpEnv \/ TcpMainStep \/ TcpThrStep

LiveSpecTcp ==
    /\ InitTcp
    /\ [][NextTcpLive]_vars
    /\ WF_vars(TcpMainStep)
    /\ WF_vars(TcpThrStep)

----------------------------------------------------------------------------
\* HTTP bridge (MCPStreamingClient).

\* Lines the parent may write: white space only, malformed JSON, a JSON-RPC
\* object, and a JSON array with white space around it.
LineBlank == <<" ", NL>>

LineBad == <<"{", "\"id\"", NL>>

LineReqA == <<"{", "\"id\"", ":", "1", "}", NL>>

LineReqB == <<" ", "[", "0", "]", " ", NL>>

InputLines == {LineBlank, LineBad, LineReqA, LineReqB}

Inputs == UNION {[1..n -> InputLines] : n \in 0..MaxLines}

\* What session.post() can come back with: an exception of requests (a
\* network failure or a timeout), or a response with a status and a body.
RespRaised(e) == [exc |-> e, status |-> 0, body |-> <<>>]

RespHttp(st, body) == [exc |-> "none", status |-> st, body |-> body]

BodyResult == <<"{", "\"id\"", ":", "1", "}">>

BodyEmptyObj == <<"{", "}">>

BodyHtml == <<"x">>

Responses ==
    {RespRaised("ConnectionError"),
     RespHttp(500, BodyResult), RespHttp(300, BodyResult),
     RespHttp(200, BodyHtml),
     RespHttp(200, BodyResult), RespHttp(200, BodyEmptyObj)}

\* response.raise_for_status(): HTTPError for 4xx and 5xx.
RaiseForStatus(st) == 400 <= st /\ st < 600

\* A forward_request that returns the body whatever the status.
ForwardIgnoringStatus(r) ==
    IF r.exc # "none" THEN [raised |-> TRUE, v |-> JNull]
    ELSE IF ~JsonLoads(r.body).ok THEN [raised |-> TRUE, v |-> JNull]
    ELSE [raised |-> FALSE, v |-> JsonLoads(r.body).v]

\* forward_request's try block on the outcome r of session.post(): raised
\* means the `except Exception` branch ran (diagnostic, return None).
ForwardResult(r) ==
    IF r.exc # "none" THEN [raised |-> TRUE, v |-> JNull]
    ELSE IF RaiseForStatus(r.status) THEN [raised |-> TRUE, v |-> JNull]
    ELSE IF ~JsonLoads(r.body).ok THEN [raised |-> TRUE, v |-> JNull]
    ELSE [raised |-> FALSE, v |-> JsonLoads(r.body).v]

\* A bridge that put each reply in front of the earlier ones.
PrintFirst(out, idx, v) == <<[idx |-> idx, text |-> Dumps(v) \o <<NL>>]>> \o out

\* print(json.dumps(response), flush=True) for input line idx.
PrintLine(out, idx, v) == Append(out, [idx |-> idx, text |-> Dumps(v) \o <<NL>>])

\* The url arguments tried: without a trailing slash (the example of the
\* usage text), and with two of them after a path.
UrlPlain == <<"h">>

BaseUrlArgs == {UrlPlain, <<"h", "/", "p", "/", "/">>}

\* A client that keeps the url as given.
KeepSlashes(u) == u

\* base_url.rstrip('/')
RECURSIVE RStripSlash(_)
RStripSlash(u) ==
    IF u # <<>> /\ u[Len(u)] = "/" THEN RStripSlash(Take(u, Len(u) - 1)) ELSE u

\* f"{self.base_url}/mcp"
PostUrl(b) == b \o <<"/", "m", "c", "p">>

\* State after MCPStreamingClient.__init__ for the url argument u, with
\* stdin's content chosen.
HttpConstructed(u) ==
    /\ urlArg = u
    /\ baseUrl = RStripSlash(u)
    /\ OnlyHttp
    /\ input \in Inputs
    /\ pos = 0
    /\ httpPc = "read"
    /\ httpLine = <<>>
    /\ request = JNull
    /\ response = JNull
    /\ session = "open"
    /\ sessCloses = 0
    /\ posts = <<>>
    /\ replies = <<>>
    /\ httpOut = <<>>
    /\ httpErr = <<>>
    /\ httpExit = "none"

\* The client started on any of the url arguments.
InitHttpUrl == \E u \in BaseUrlArgs : HttpConstructed(u)

\* State after MCPStreamingClient.__init__, with stdin's content chosen.
InitHttp ==
    /\ urlArg = UrlPlain
    /\ baseUrl = RStripSlash(urlArg)
    /\ OnlyHttp
    /\ input \in Inputs
    /\ pos = 0
    /\ httpPc = "read"
    /\ httpLine = <<>>
    /\ request = JNull
    /\ response = JNull
    /\ session = "open"
    /\ sessCloses = 0
    /\ posts = <<>>
    /\ replies = <<>>
    /\ httpOut = <<>>
    /\ httpErr = <<>>
    /\ httpExit = "none"

\* A bridge without the `if not line: continue` test.
HttpReadLineNoSkip ==
    /\ httpPc = "read" /\ pos < Len(input)
    /\ pos' = pos + 1
    /\ httpLine' = Strip(input[pos + 1])
    /\ httpPc' = "parse"
    /\ UNCHANGED <<input, request, response, session, sessCloses, posts,
                   replies, httpOut, httpErr, httpExit, urlArg, baseUrl>>
    /\ UNCHANGED notHttpVars

\* `for line in sys.stdin` yields the next line; line.strip(); a blank line
\* takes `continue`.
HttpReadLine ==
    /\ httpPc = "read" /\ pos < Len(input)
    /\ pos' = pos + 1
    /\ httpLine' = Strip(input[pos + 1])
    /\ httpPc' = IF httpLine' = <<>> THEN "read" ELSE "parse"
    /\ UNCHANGED <<input, request, response, session, sessCloses, posts,
                   replies, httpOut, httpErr, httpExit, urlArg, baseUrl>>
    /\ UNCHANGED notHttpVars

\* End of input: the for loop ends and the try block is left normally.
HttpEOF ==
    /\ httpPc = "read" /\ pos = Len(input)
    /\ httpExit' = "eof"
    /\ httpPc' = "finally"
    /\ UNCHANGED <<input, pos, httpLine, request, response, session,
                   sessCloses, posts, replies, httpOut, httpErr, urlArg,
                   baseUrl>>
    /\ UNCHANGED notHttpVars

\* A bridge without the JSONDecodeError handler: the error leaves the loop.
HttpParseUncaught ==
    /\ httpPc = "parse"
    /\ IF JsonLoads(httpLine).ok
       THEN /\ request' = JsonLoads(httpLine).v
            /\ httpPc' = "post"
            /\ UNCHANGED httpExit
       ELSE /\ httpExit' = "error"
            /\ httpPc' = "finally"
            /\ UNCHANGED request
    /\ UNCHANGED <<input, pos, httpLine, response, session, sessCloses, posts,
                   replies, httpOut, httpErr, urlArg, baseUrl>>
    /\ UNCHANGED notHttpVars

\* request = json.loads(line), or the JSONDecodeError handler.
HttpParse ==
    /\ httpPc = "parse"
    /\ IF JsonLoads(httpLine).ok
       THEN /\ request' = JsonLoads(httpLine).v
            /\ httpPc' = "post"
            /\ UNCHANGED httpErr
       ELSE /\ httpErr' = Append(httpErr, [idx |-> pos, msg |-> "JSON decode error"])
            /\ httpPc' = "read"
            /\ UNCHANGED request
    /\ UNCHANGED <<input, pos, httpLine, response, session, sessCloses, posts,
                   replies, httpOut, httpExit, urlArg, baseUrl>>
    /\ UNCHANGED notHttpVars

\* forward_request: self.session.post(url, json=json_rpc, ...) goes out.
HttpPost ==
    /\ httpPc = "post"
    /\ posts' = Append(posts, [idx |-> pos, body |-> request,
                               open |-> session = "open",
                               url |-> PostUrl(baseUrl)])
    /\ httpPc' = "await"
    /\ UNCHANGED <<input, pos, httpLine, request, response, session,
                   sessCloses, replies, httpOut, httpErr, httpExit, urlArg,
                   baseUrl>>
    /\ UNCHANGED notHttpVars

\* A bridge that sends the request again when it has failed.
HttpReplyRetry ==
    /\ httpPc = "await"
    /\ \E r \in Responses :
           /\ replies' = Append(replies, [idx |-> pos, r |-> r])
           /\ response' = ForwardResult(r).v
           /\ httpErr' = IF ForwardResult(r).raised
                         THEN Append(httpErr, [idx |-> pos, msg |-> "Request error"])
                         ELSE httpErr
           /\ httpPc' = IF ForwardResult(r).raised THEN "post" ELSE "respond"
    /\ UNCHANGED <<input, pos, httpLine, request, session, sessCloses, posts,
                   httpOut, httpExit, urlArg, baseUrl>>
    /\ UNCHANGED notHttpVars

\* forward_request: the post comes back; raise_for_status, response.json(),
\* or the `except Exception` branch.
HttpReply ==
    /\ httpPc = "await"
    /\ \E r \in Responses :
           /\ replies' = Append(replies, [idx |-> pos, r |-> r])
           /\ response' = ForwardResult(r).v
           /\ httpErr' = IF ForwardResult(r).raised
                         THEN Append(httpErr, [idx |-> pos, msg |-> "Request error"])
                         ELSE httpErr
    /\ httpPc' = "respond"
    /\ UNCHANGED <<input, pos, httpLine, request, session, sessCloses, posts,
                   httpOut, httpExit, urlArg, baseUrl>>
    /\ UNCHANGED notHttpVars

\* A bridge that answers a failed call with an error object of its own.
HttpRespondErrorObject ==
    /\ httpPc = "respond"
    /\ httpOut' = IF Truthy(response) THEN PrintLine(httpOut, pos, response)
                  ELSE PrintLine(httpOut, pos, JObj(<<[k |-> "id", v |-> JNull]>>))
    /\ httpPc' = "read"
    /\ UNCHANGED <<input, pos, httpLine, request, response, session,
                   sessCloses, posts, replies, httpErr, httpExit, urlArg,
                   baseUrl>>
    /\ UNCHANGED notHttpVars

\* `if response: print(json.dumps(response), flush=True)`
HttpRespond ==
    /\ httpPc = "respond"
    /\ httpOut' = IF Truthy(response) THEN PrintLine(httpOut, pos, response)
                  ELSE httpOut
    /\ httpPc' = "read"
    /\ UNCHANGED <<input, pos, httpLine, request, response, session,
                   sessCloses, posts, replies, httpErr, httpExit, urlArg,
                   baseUrl>>
    /\ UNCHANGED notHttpVars

\* print() raises (stdout is a broken pipe): neither handler of run()
\* catches it, so it leaves the loop through the finally block.
HttpPrintError ==
    /\ httpPc = "respond" /\ Truthy(response)
    /\ httpExit' = "error"
    /\ httpPc' = "finally"
    /\ UNCHANGED <<input, pos, httpLine, request, response, session,
                   sessCloses, posts, replies, httpOut, httpErr, urlArg,
                   baseUrl>>
    /\ UNCHANGED notHttpVars

\* KeyboardInterrupt inside run()'s try block: `except KeyboardInterrupt:
\* pass` (forward_request's `except Exception` does not catch it).
HttpInterrupt ==
    /\ httpPc \in {"read", "parse", "post", "await", "respond"}
    /\ httpExit' = "interrupt"
    /\ httpPc' = "finally"
    /\ UNCHANGED <<input, pos, httpLine, request, response, session,
                   sessCloses, posts, replies, httpOut, httpErr, urlArg,
                   baseUrl>>
    /\ UNCHANGED notHttpVars

\* A bridge whose session.close() follows the try statement instead of
\* sitting in a finally block.
HttpCloseAfterTry ==
    /\ httpPc = "finally"
    /\ IF httpExit # "error"
       THEN session' = "closed" /\ sessCloses' = sessCloses + 1
       ELSE UNCHANGED <<session, sessCloses>>
    /\ httpPc' = IF httpExit = "error" THEN "raised" ELSE "returned"
    /\ UNCHANGED <<input, pos, httpLine, request, response, posts, replies,
                   httpOut, httpErr, httpExit, urlArg, baseUrl>>
    /\ UNCHANGED notHttpVars

\* run()'s finally block: self.session.close(); then run() returns, or the
\* exception that left the loop goes on to the caller.
HttpFinally ==
    /\ httpPc = "finally"
    /\ session' = "closed"
    /\ sessCloses' = sessCloses + 1
    /\ httpPc' = IF httpExit = "error" THEN "raised" ELSE "returned"
    /\ UNCHANGED <<input, pos, httpLine, request, response, posts, replies,
                   httpOut, httpErr, httpExit, urlArg, baseUrl>>
    /\ UNCHANGED notHttpVars

NextHttp ==
    \/ HttpReadLine
    \/ HttpEOF
    \/ HttpParse
    \/ HttpPost
    \/ HttpReply
    \/ HttpRespond
    \/ HttpPrintError
    \/ HttpInterrupt
    \/ HttpFinally

SpecHttp == InitHttp /\ [][NextHttp]_vars

\* The HTTP bridge over the url arguments.
SpecHttpUrl == InitHttpUrl /\ [][NextHttp]_vars

----------------------------------------------------------------------------
\* GatewayManager (docker_mcp_gateway_manager.py): the PID file and the
\* gateway processes.
Pids == 1..MaxPid

FileAbsent == [kind |-> "absent", pid |-> 0]

FileGarbage == [kind |-> "garbage", pid |-> 0]

FilePid(p) == [kind |-> "pid", pid |-> p]

\* The launched processes that are running, and their pids.
RunningProcs == {i \in 1..Len(gwProcs) : gwProcs[i].alive}

LivePids == {gwProcs[i].pid : i \in RunningProcs}

PidsInUse == LivePids \cup gwOwn \cup gwForeign

\* os.kill(pid, sig): delivered, or the exception it raises.
Kill(p) ==
    IF p \in LivePids \cup gwOwn THEN "ok"
    ELSE IF p \in gwForeign THEN "PermissionError"
    ELSE "ProcessLookupError"

\* is_gateway_running(): its return value, or "raised" for an exception that
\* `except (ProcessLookupError, ValueError)` does not catch.
IsGatewayRunning ==
    IF gwFile.kind = "absent" THEN "False"
    ELSE IF gwFile.kind = "garbage" THEN "False"
    ELSE CASE Kill(gwFile.pid) = "ok" -> "True"
           [] Kill(gwFile.pid) = "ProcessLookupError" -> "False"
           [] OTHER -> "raised"

\* A GatewayManager on a machine in any condition: the PID file absent, with
\* text that is no number, or with a pid, which may be free, of a process of
\* this user, or of a process of another user.
InitGw ==
    /\ OnlyGw
    /\ gwFile \in {FileAbsent, FileGarbage} \cup {FilePid(p) : p \in Pids}
    /\ gwProcs = <<>>
    /\ gwOwn \in SUBSET Pids
    /\ gwForeign \in SUBSET (Pids \ gwOwn)
    /\ gwLast = NoCall("none")

\* start_gateway(): Popen raises (no docker), or the process is launched and
\* its pid written to the PID file, or launched with the write failing.
GwStart ==
    /\ UNCHANGED notGwVars
    /\ gwLast.op # "off"
    /\ \/ /\ gwLast' = [NoCall("start") EXCEPT !.ret = "False", !.was = gwFile.kind]
          /\ UNCHANGED <<gwFile, gwProcs>>
       \/ /\ Len(gwProcs) < MaxStarts
          /\ \E p \in Pids \ PidsInUse :
                /\ gwProcs' = Append(gwProcs, [pid |-> p, alive |-> TRUE,
                                               termed |-> FALSE])
                /\ \/ /\ gwFile' = FilePid(p)
                      /\ gwLast' = [NoCall("start") EXCEPT !.ret = "True",
                                                           !.was = gwFile.kind]
                   \/ /\ gwFile' = gwFile
                      /\ gwLast' = [NoCall("start") EXCEPT !.ret = "False",
                                                           !.was = gwFile.kind]
    /\ UNCHANGED <<gwOwn, gwForeign>>

\* stop_gateway(): with a PID file, int() of its text, SIGTERM, unlink and
\* True; any exception on the way is reported and the result is False.
GwStop ==
    /\ UNCHANGED notGwVars
    /\ gwLast.op # "off"
    /\ IF gwFile.kind = "pid" /\ Kill(gwFile.pid) = "ok"
       THEN /\ gwProcs' = [i \in 1..Len(gwProcs) |->
                              IF gwProcs[i].alive /\ gwProcs[i].pid = gwFile.pid
                              THEN [gwProcs[i] EXCEPT !.termed = TRUE]
                              ELSE gwProcs[i]]
            /\ gwFile' = FileAbsent
            /\ gwLast' = [op |-> "stop", ret |-> "True", was |-> gwFile.kind,
                          sig |-> gwFile.pid, unlinked |-> TRUE]
       ELSE /\ gwLast' = [NoCall("stop") EXCEPT !.ret = "False",
                                                !.was = gwFile.kind]
            /\ UNCHANGED <<gwFile, gwProcs>>
    /\ UNCHANGED <<gwOwn, gwForeign>>

\* is_gateway_running() is called.
GwIsRunning ==
    /\ UNCHANGED notGwVars
    /\ gwLast.op # "off"
    /\ gwLast' = [NoCall("running") EXCEPT !.ret = IsGatewayRunning,
                                           !.was = gwFile.kind]
    /\ UNCHANGED <<gwFile, gwProcs, gwOwn, gwForeign>>

\* A launched gateway process ends, of itself or on the SIGTERM it got.
GwProcExit ==
    /\ UNCHANGED notGwVars
    /\ gwLast.op # "off"
    /\ \E i \in RunningProcs :
           gwProcs' = [gwProcs EXCEPT ![i].alive = FALSE]
    /\ gwLast' = NoCall("none")
    /\ UNCHANGED <<gwFile, gwOwn, gwForeign>>

NextGw == GwStart \/ GwStop \/ GwIsRunning \/ GwProcExit

SpecGw == InitGw /\ [][NextGw]_vars

----------------------------------------------------------------------------
\* media.py, import_tv_shows. Titles are strings of characters, among them
\* two that differ in letter case only.
Titles == {<<"L", "o">>, <<"l", "o">>, <<"D">>}

\* str.lower()
LowerChar(c) ==
    CASE c = "L" -> "l"
      [] c = "D" -> "d"
      [] OTHER -> c

Lower(t) == [k \in 1..Len(t) |-> LowerChar(t[k])]

SeqsUpTo(S, n) == UNION {[1..k -> S] : k \in 0..n}

\* list(dict.fromkeys(all_shows)): the first occurrence of each title, in
\* order; titles are compared as they are.
RECURSIVE Dedupe(_)
Dedupe(shows) ==
    IF shows = <<>> THEN <<>>
    ELSE LET front == Dedupe(Take(shows, Len(shows) - 1))
         IN  IF shows[Len(shows)] \in Range(front) THEN front
             ELSE Append(front, shows[Len(shows)])

\* The sum of the four counters.
MedCounted ==
    medCount.added + medCount.skipped + medCount.failed + medCount.filtered_out

\* import_tv_shows is entered: Sonarr holds any set of series, the sources
\* give any list of titles.
InitMed ==
    /\ OnlyMed
    /\ medPc = "load"
    /\ medLibrary \in SUBSET Titles
    /\ medLoaded = FALSE
    /\ medCollected \in SeqsUpTo(Titles, MaxShows)
    /\ medShows = <<>>
    /\ medExisting = {}
    /\ medI = 0
    /\ medCount = [added |-> 0, skipped |-> 0, failed |-> 0, filtered_out |-> 0]
    /\ medCalls = <<>>

\* existing = sonarr.get_existing_series(), which returns [] when the
\* request fails; existing_titles = {show["title"].lower() ...}
MedLoad ==
    /\ UNCHANGED notMedVars
    /\ medPc = "load"
    /\ \/ medLoaded' = TRUE /\ medExisting' = {Lower(t) : t \in medLibrary}
       \/ medLoaded' = FALSE /\ medExisting' = {}
    /\ medPc' = "collect"
    /\ UNCHANGED <<medLibrary, medCollected, medShows, medI, medCount, medCalls>>

\* The sources are put together and the duplicates removed.
MedCollect ==
    /\ UNCHANGED notMedVars
    /\ medPc = "collect"
    /\ medShows' = Dedupe(medCollected)
    /\ medPc' = "loop"
    /\ UNCHANGED <<medLibrary, medLoaded, medCollected, medExisting, medI,
                   medCount, medCalls>>

\* The head of the for loop and `if title.lower() in existing_titles`.
MedLoopHead ==
    /\ UNCHANGED notMedVars
    /\ medPc = "loop"
    /\ IF medI = Len(medShows)
       THEN medPc' = "done" /\ UNCHANGED <<medI, medCount>>
       ELSE IF Lower(medShows[medI + 1]) \in medExisting
       THEN /\ medCount' = [medCount EXCEPT !.skipped = @ + 1]
            /\ medI' = medI + 1
            /\ medPc' = "loop"
       ELSE medPc' = "search" /\ UNCHANGED <<medI, medCount>>
    /\ UNCHANGED <<medLibrary, medLoaded, medCollected, medShows, medExisting,
                   medCalls>>

\* results = sonarr.search_series(title); `if not results`
MedSearch ==
    /\ UNCHANGED notMedVars
    /\ medPc = "search"
    /\ \/ /\ medCount' = [medCount EXCEPT !.failed = @ + 1]
          /\ medI' = medI + 1
          /\ medPc' = "loop"
       \/ medPc' = "filter" /\ UNCHANGED <<medI, medCount>>
    /\ UNCHANGED <<medLibrary, medLoaded, medCollected, medShows, medExisting,
                   medCalls>>

\* passes, reason = apply_filters(series_info, config); `if not passes`
MedFilter ==
    /\ UNCHANGED notMedVars
    /\ medPc = "filter"
    /\ \/ /\ medCount' = [medCount EXCEPT !.filtered_out = @ + 1]
          /\ medI' = medI + 1
          /\ medPc' = "loop"
       \/ medPc' = "add" /\ UNCHANGED <<medI, medCount>>
    /\ UNCHANGED <<medLibrary, medLoaded, medCollected, medShows, medExisting,
                   medCalls>>

\* An import that does not count the titles Sonarr refused.
MedAddUncounted ==
    /\ UNCHANGED notMedVars
    /\ medPc = "add"
    /\ \E ok \in BOOLEAN :
          /\ medCalls' = Append(medCalls, [title |-> medShows[medI + 1], ok |-> ok])
          /\ IF ok
             THEN /\ medCount' = [medCount EXCEPT !.added = @ + 1]
                  /\ medExisting' = medExisting \cup {Lower(medShows[medI + 1])}
             ELSE UNCHANGED <<medCount, medExisting>>
    /\ medPc' = "sleep"
    /\ UNCHANGED <<medLibrary, medLoaded, medCollected, medShows, medI>>

\* result = sonarr.add_series(...); `if result` added and the title noted,
\* else skipped.
MedAdd ==
    /\ UNCHANGED notMedVars
    /\ medPc = "add"
    /\ \E ok \in BOOLEAN :
          /\ medCalls' = Append(medCalls, [title |-> medShows[medI + 1], ok |-> ok])
          /\ IF ok
             THEN /\ medCount' = [medCount EXCEPT !.added = @ + 1]
                  /\ medExisting' = medExisting \cup {Lower(medShows[medI + 1])}
             ELSE /\ medCount' = [medCount EXCEPT !.skipped = @ + 1]
                  /\ UNCHANGED medExisting
    /\ medPc' = "sleep"
    /\ UNCHANGED <<medLibrary, medLoaded, medCollected, medShows, medI>>

\* time.sleep(0.5), the end of the loop body.
MedSleep ==
    /\ UNCHANGED notMedVars
    /\ medPc = "sleep"
    /\ medI' = medI + 1
    /\ medPc' = "loop"
    /\ UNCHANGED <<medLibrary, medLoaded, medCollected, medShows, medExisting,
                   medCount, medCalls>>

NextMed ==
    \/ MedLoad
    \/ MedCollect
    \/ MedLoopHead
    \/ MedSearch
    \/ MedFilter
    \/ MedAdd
    \/ MedSleep

SpecMed == InitMed /\ [][NextMed]_vars

----------------------------------------------------------------------------
\* sonarr_importer.py, SonarrImporter.import_shows.
SonEvent(ev, i) == [ev |-> ev, i |-> i]

\* import_shows(show_list) is entered with any list of titles.
InitSon ==
    /\ OnlySon
    /\ sonPc = "search"
    /\ sonList \in SeqsUpTo(Titles, MaxShows)
    /\ sonI = 1
    /\ sonCount = [added |-> 0, skipped |-> 0, failed |-> 0]
    /\ sonLog = <<>>

\* series_info = self.search_series(show_title); `if not series_info:`
\* failed += 1 and continue.
SonSearch ==
    /\ UNCHANGED notSonVars
    /\ sonPc = "search" /\ sonI <= Len(sonList)
    /\ sonLog' = Append(sonLog, SonEvent("search", sonI))
    /\ \/ /\ sonCount' = [sonCount EXCEPT !.failed = @ + 1]
          /\ sonI' = sonI + 1
          /\ sonPc' = "search"
       \/ sonPc' = "add" /\ UNCHANGED <<sonI, sonCount>>
    /\ UNCHANGED sonList

\* `if self.add_series(series_info)`: added or skipped; then the test
\* `if i < len(show_list)` before the sleep.
SonAdd ==
    /\ UNCHANGED notSonVars
    /\ sonPc = "add"
    /\ sonLog' = Append(sonLog, SonEvent("add", sonI))
    /\ \/ sonCount' = [sonCount EXCEPT !.added = @ + 1]
       \/ sonCount' = [sonCount EXCEPT !.skipped = @ + 1]
    /\ IF sonI < Len(sonList)
       THEN sonPc' = "sleep" /\ UNCHANGED sonI
       ELSE sonPc' = "search" /\ sonI' = sonI + 1
    /\ UNCHANGED sonList

\* time.sleep(delay)
SonSleep ==
    /\ UNCHANGED notSonVars
    /\ sonPc = "sleep"
    /\ sonLog' = Append(sonLog, SonEvent("sleep", sonI))
    /\ sonI' = sonI + 1
    /\ sonPc' = "search"
    /\ UNCHANGED <<sonList, sonCount>>

\* The loop is over: the summary is printed.
SonSummary ==
    /\ UNCHANGED notSonVars
    /\ sonPc = "search" /\ sonI > Len(sonList)
    /\ sonPc' = "done"
    /\ UNCHANGED <<sonList, sonI, sonCount, sonLog>>

NextSon == SonSearch \/ SonAdd \/ SonSleep \/ SonSummary

SpecSon == InitSon /\ [][NextSon]_vars

----------------------------------------------------------------------------
\* Either bridge is run: the process is started as one of the two programs.
InitBridges == InitTcp \/ InitHttp

NextBridges == NextTcp \/ NextHttp

SpecBridges == InitBridges /\ [][NextBridges]_vars

----------------------------------------------------------------------------
\* Claims about the TCP bridge.

\* run() has left its try statement, or the process is gone.
TcpRunLeft == mainPc \in {"returned", "raised"} \/ proc = "exited"

\* C1: on every exit path of run() after a successful connect (peer closed,
\* recv error, stdout error, KeyboardInterrupt, thread start failure) the
\* socket has been closed exactly once; close() is never called twice.
C1_SocketClosedOnce ==
    /\ closeCount <= 1
    /\ (TcpRunLeft /\ sock \in {"connected", "closed"})
           => (closeCount = 1 /\ sock = "closed")

\* The process has exited after a connect, with the daemon thread still in
\* its loop, and the socket closed once.
C1_Witness ==
    /\ proc = "exited" /\ thrPc = "killed"
    /\ sock = "closed" /\ closeCount = 1

\* C2 (as claimed): whenever a forwarding loop has ended (its source reached
\* end-of-stream or failed), the process eventually exits, whatever the
\* other direction does.
C2_LoopEndLeadsToExit ==
    /\ (thrPc = "done") ~> (proc = "exited")
    /\ (mainPc = "finally") ~> (proc = "exited")

\* How many bytes of stdin readline() can return without blocking: all of
\* them at end-of-stream, else those up to the last newline.
LastNL(s) ==
    IF \E i \in 1..Len(s) : s[i] = NL
    THEN CHOOSE i \in 1..Len(s) : s[i] = NL /\ \A j \in (i + 1)..Len(s) : s[j] # NL
    ELSE 0

StdinLineBytes == IF stdinEOF THEN Len(stdinData) ELSE LastNL(stdinData)

\* C3: on a run without failures, whenever bytes of the peer are not yet on
\* stdout they eventually all are, whatever stdin does (in particular when
\* it never produces a line); and while the peer keeps the connection open,
\* whenever readable lines of stdin are not yet sent they eventually all
\* are, whatever the peer sends (in particular when it never sends a byte).
C3_DuplexIndependence ==
    /\ (stdoutOut # netData) ~> (stdoutOut = netData)
    /\ ([]~peerClosed) =>
           ((sockSent # Take(stdinData, StdinLineBytes))
                ~> (sockSent = Take(stdinData, StdinLineBytes)))

\* The peer's bytes are all on stdout while stdin has stayed idle and open.
C3_Witness ==
    /\ Len(netData) = MaxNet /\ stdoutOut = netData
    /\ stdinData = <<>> /\ ~stdinEOF

\* C9: the bytes sent to the socket are a prefix of the bytes read from
\* stdin, and the bytes written to stdout (flushed, and flushed plus
\* buffered) are a prefix of the bytes received from the socket.
C9_BytePipe ==
    /\ IsPrefix(sockSent, Take(stdinData, stdinPos))
    /\ IsPrefix(stdoutOut, Take(netData, netPos))
    /\ IsPrefix(stdoutOut \o stdoutBuf, Take(netData, netPos))

\* Both directions have carried a line end and another byte.
C9_Witness ==
    /\ Len(sockSent) >= 2 /\ NL \in Range(sockSent) /\ "a" \in Range(sockSent)
    /\ Len(stdoutOut) >= 2 /\ NL \in Range(stdoutOut) /\ "a" \in Range(stdoutOut)

----------------------------------------------------------------------------
\* Claims about the HTTP bridge. Input lines are numbered from 1; the line
\* in hand is line pos.

\* The handling of line i is over: the loop is back at its head, or past it.
Handled(i) == i < pos \/ (i = pos /\ httpPc = "read")

OutFor(i) == SelectSeq(httpOut, LAMBDA e : e.idx = i)

ErrFor(i) == SelectSeq(httpErr, LAMBDA e : e.idx = i)

PostsFor(i) == SelectSeq(posts, LAMBDA e : e.idx = i)

RepliesFor(i) == SelectSeq(replies, LAMBDA e : e.idx = i)

NonBlank(l) == Strip(l) # <<>>

Malformed(l) == NonBlank(l) /\ ~JsonLoads(Strip(l)).ok

ValidLine(l) == NonBlank(l) /\ JsonLoads(Strip(l)).ok

\* The POST succeeded: a 2xx status and a body that parses as JSON.
Succeeded(r) ==
    r.exc = "none" /\ r.status \in 200..299 /\ JsonLoads(r.body).ok

\* The POST raised a request exception: a network failure or timeout, a
\* status raise_for_status() rejects, or a body that does not parse.
Failed(r) ==
    r.exc # "none" \/ r.status \in 400..599 \/ ~JsonLoads(r.body).ok

Count(seq, P(_)) == Len(SelectSeq(seq, P))

\* C4 (as claimed): once the handling of a line whose POST succeeded is
\* over, stdout holds exactly one line for it: the serialized body,
\* whatever JSON value the body is.
C4_OneLinePerSuccess ==
    \A j \in 1..Len(replies) :
        LET e == replies[j] IN
        (Succeeded(e.r) /\ Handled(e.idx)) =>
            OutFor(e.idx) = <<[idx |-> e.idx,
                               text |-> Dumps(JsonLoads(e.r.body).v) \o <<NL>>]>>

\* C5 (as claimed): when the input has been processed to its end, the
\* number of output lines is the number of non-blank lines minus the failed
\* requests minus the malformed lines.
C5_OutputCount ==
    httpExit = "eof" =>
        Len(httpOut) = Count(input, NonBlank)
                           - Count(replies, LAMBDA e : Failed(e.r))
                           - Count(input, Malformed)

\* C6: a non-blank line that is not valid JSON gets one diagnostic on
\* stderr, no POST and no stdout line; it does not end the loop; and the
\* line after it, when valid, is posted as usual.
C6_MalformedLine ==
    \A i \in 1..pos :
        Malformed(input[i]) =>
            /\ Handled(i) => ErrFor(i) = <<[idx |-> i, msg |-> "JSON decode error"]>>
            /\ PostsFor(i) = <<>>
            /\ OutFor(i) = <<>>
            /\ (httpExit = "error" => pos # i)
            /\ (i < pos /\ ValidLine(input[i + 1]) /\ Handled(i + 1)) =>
                   /\ Len(PostsFor(i + 1)) = 1
                   /\ PostsFor(i + 1)[1].body = JsonLoads(Strip(input[i + 1])).v

\* A malformed line was handled and the valid line after it answered.
C6_Witness ==
    /\ pos >= 2 /\ Malformed(input[1]) /\ ValidLine(input[2])
    /\ Handled(2) /\ OutFor(2) # <<>>

FailedAsClaimed(r) ==
    r.exc # "none" \/ r.status \notin 200..299 \/ ~JsonLoads(r.body).ok

C8_OrderPreserved ==
    /\ \A a, b \in 1..Len(httpOut) : a < b => httpOut[a].idx < httpOut[b].idx
    /\ \A a \in 1..Len(httpOut) :
           \E j \in 1..Len(replies) :
               /\ replies[j].idx = httpOut[a].idx
               /\ httpOut[a].text = Dumps(JsonLoads(replies[j].r.body).v) \o <<NL>>

\* Lines 1 and 3 were answered, line 2 failed or was malformed.
C8_Witness ==
    /\ Len(httpOut) = 2
    /\ httpOut[1].idx = 1 /\ httpOut[2].idx = 3
    /\ NonBlank(input[2])

\* C10: whenever run() is left (end of input, KeyboardInterrupt, an
\* exception of print), session.close() has been called exactly once, it
\* is never called twice, and every POST was sent on the open session.
C10_SessionClosedOnce ==
    /\ sessCloses <= 1
    /\ httpPc \in {"returned", "raised"} => (sessCloses = 1 /\ session = "closed")
    /\ \A j \in 1..Len(posts) : posts[j].open

\* run() was left by an exception of print, after a POST, session closed.
C10_Witness ==
    /\ httpPc = "raised" /\ httpExit = "error"
    /\ sessCloses = 1 /\ posts # <<>>

----------------------------------------------------------------------------
\* Claims about interrupts, exit status and failures to connect.

\* The request of the line in hand went out and no answer has come back.
InFlight == PostsFor(pos) # <<>> /\ RepliesFor(pos) = <<>>

\* TCP bridge: a KeyboardInterrupt reached the main thread and run() is left
\* with the socket released and without an exception on its way to the caller.
TcpInterruptUnwinds ==
    /\ interrupted => mainPc \in {"finally", "returned"}
    /\ (interrupted /\ TcpRunLeft) => sock \notin {"created", "connected"}

\* HTTP bridge: after a KeyboardInterrupt the loop is not entered again, run()
\* returns with the session closed, and a request that was in flight has no
\* output line.
HttpInterruptUnwinds ==
    /\ httpExit = "interrupt" => httpPc \in {"finally", "returned"}
    /\ (httpExit = "interrupt" /\ httpPc = "returned") => session = "closed"
    /\ (httpExit = "interrupt" /\ InFlight) => OutFor(pos) = <<>>

\* C11: in both bridges a KeyboardInterrupt delivered at any point of run()
\* (reading input, during an HTTP request, in recv, while connecting) ends
\* with the network resource released and run() returning without raising;
\* in HTTP mode the request in flight gives no output line and no further
\* line is forwarded.
C11_InterruptUnwinds == TcpInterruptUnwinds /\ HttpInterruptUnwinds

\* C12 (TCP bridge): once the remote peer has closed the socket the process
\* exits with status 0, also while the daemon thread is still blocked reading
\* standard input; a nonzero status occurs only after a failed initial
\* connect.
C12_CleanExitStatus ==
    /\ peerClosed ~> (proc = "exited" /\ exitCode = 0)
    /\ []((proc = "exited" /\ exitCode # 0) => mainPc = "exit1")

\* connect() has failed: its diagnostic is on stderr.
ConnectFailed == "Connection failed" \in Range(tcpErr)

\* C13: after a failed initial connect the diagnostic is the only thing on
\* stderr, run() goes to sys.exit(1) and the process exits with a nonzero
\* status; neither forwarding loop is started: no byte is read from stdin,
\* none is sent to a socket, none is received or written to stdout.
C13_ConnectFailure ==
    ConnectFailed =>
        /\ tcpErr = <<"Connection failed">>
        /\ mainPc = "exit1"
        /\ proc = "exited" => exitCode # 0
        /\ thrPc = "unstarted"
        /\ stdinPos = 0 /\ line = <<>> /\ sockSent = <<>>
        /\ netPos = 0 /\ data = <<>>
        /\ stdoutBuf = <<>> /\ stdoutOut = <<>>
        /\ closeCount = 0

\* The process has exited after a failed connect while bytes were waiting on
\* its stdin.
C13_Witness ==
    /\ ConnectFailed /\ proc = "exited" /\ exitCode = 1
    /\ stdinData # <<>>

\* C14: no retry and no reconnection. HTTP bridge: every input line causes
\* at most one POST, also when the request fails, and only non-blank valid
\* lines cause one. TCP bridge: connect() is called exactly once per run,
\* never again after a send or recv failure or after the peer closed.
C14_NoRetryNoReconnect ==
    /\ \A i \in 1..Len(input) :
           /\ Len(PostsFor(i)) <= 1
           /\ PostsFor(i) # <<>> => ValidLine(input[i])
    /\ connects <= 1
    /\ mainPc \notin {"off", "connect"} => connects = 1

\* A request has failed and the bridge has gone on to finish the line: it
\* was sent once.
C14_Witness ==
    \E i \in 1..Len(input) :
        /\ Handled(i)
        /\ \E k \in 1..Len(replies) : replies[k].idx = i /\ Failed(replies[k].r)
        /\ Len(PostsFor(i)) = 1

----------------------------------------------------------------------------
\* Further claims about the HTTP bridge.

\* The stdout line e is json.dumps of the body of a reply received for the
\* request of e's input line.
SerializedReply(e) ==
    \E j \in 1..Len(replies) :
        /\ replies[j].idx = e.idx
        /\ replies[j].r.exc = "none"
        /\ JsonLoads(replies[j].r.body).ok
        /\ e.text = Dumps(JsonLoads(replies[j].r.body).v) \o <<NL>>

\* C15: every line on stdout is the serialization of a response body that
\* was received for a forwarded request; the diagnostics of parse failures
\* and request failures are on stderr only, and a line that got a diagnostic
\* has nothing on stdout (no error object stands in for the failed call).
C15_ChannelSeparation ==
    /\ \A k \in 1..Len(httpOut) : SerializedReply(httpOut[k])
    /\ \A k \in 1..Len(httpErr) :
           /\ httpErr[k].msg \in {"JSON decode error", "Request error"}
           /\ OutFor(httpErr[k].idx) = <<>>
    /\ \A i \in 1..Len(input) :
           (Handled(i) /\ Malformed(input[i])) => ErrFor(i) # <<>>
    /\ \A j \in 1..Len(replies) :
           (Handled(replies[j].idx) /\ ForwardResult(replies[j].r).raised)
               => ErrFor(replies[j].idx) # <<>>

\* A reply is on stdout while a parse failure and a request failure each have
\* their diagnostic on stderr.
C15_Witness ==
    /\ httpOut # <<>>
    /\ \E k \in 1..Len(httpErr) : httpErr[k].msg = "JSON decode error"
    /\ \E k \in 1..Len(httpErr) : httpErr[k].msg = "Request error"

\* The requests sent that no answer has come back to.
RequestsInFlight == Len(posts) - Len(replies)

\* At most one request is in flight, and a line is read only after the
\* answer to the request of every earlier line has come back.
HttpSynchronous ==
    /\ RequestsInFlight \in {0, 1}
    /\ RequestsInFlight = 1 => (httpPc \in {"await", "finally", "returned"}
                                /\ InFlight)
    /\ \A i \in 1..Len(input) :
           (i < pos /\ PostsFor(i) # <<>>) => RepliesFor(i) # <<>>

\* C16: the HTTP bridge is synchronous: at most one request is in flight at
\* any time, and line k+1 is read or forwarded only when the handling of a
\* forwarded line k is complete, that is, its response is on stdout or its
\* failure is on stderr.
C16_Synchronous ==
    /\ HttpSynchronous
    /\ \A i \in 1..Len(input) :
           (i < pos /\ PostsFor(i) # <<>>)
               => (OutFor(i) # <<>> \/ ErrFor(i) # <<>>)

\* The step that takes a blank line from stdin.
TakesBlankLine ==
    /\ httpPc = "read" /\ pos < Len(input) /\ ~NonBlank(input[pos + 1])
    /\ pos' = pos + 1

\* C17: a blank input line (nothing but white space) causes no POST, no
\* stdout line and no stderr diagnostic, and the step that takes it leaves
\* the bridge at the head of its loop with nothing else changed, so that the
\* other lines are processed as without it.
C17_BlankLineSkipped ==
    /\ [](\A i \in 1..Len(input) :
             ~NonBlank(input[i])
                 => (PostsFor(i) = <<>> /\ OutFor(i) = <<>> /\ ErrFor(i) = <<>>))
    /\ [][TakesBlankLine
             => /\ httpPc' = "read"
                /\ UNCHANGED <<input, request, response, session, sessCloses,
                               posts, replies, httpOut, httpErr, httpExit>>]_vars

\* A blank line has been passed and a later line has its reply on stdout.
C17_Witness ==
    \E i, j \in 1..Len(input) :
        /\ i < j
        /\ ~NonBlank(input[i])
        /\ OutFor(j) # <<>>

\* The endpoint answered r with success and a JSON object as the body.
ObjectAnswer(r) ==
    /\ Succeeded(r)
    /\ JsonLoads(r.body).v.t = "obj"

\* The line of reply e is through, with exactly the value of e's body as its
\* one stdout line and nothing on stderr.
Echoed(e) ==
    /\ Len(OutFor(e.idx)) = 1
    /\ JsonLoads(Strip(OutFor(e.idx)[1].text)).ok
    /\ JsonLoads(Strip(OutFor(e.idx)[1].text)).v = JsonLoads(e.r.body).v
    /\ ErrFor(e.idx) = <<>>

\* What holds of the code: an object with at least one member is echoed.
EchoOfNonEmptyObject ==
    \A j \in 1..Len(replies) :
        (/\ Handled(replies[j].idx)
         /\ ObjectAnswer(replies[j].r)
         /\ JsonLoads(replies[j].r.body).v.members # <<>>) => Echoed(replies[j])

\* C18: when the endpoint answers a forwarded request with a JSON object,
\* the bridge writes exactly that JSON value (same members, same values) as
\* one stdout line and writes nothing to stderr.
C18_Echo ==
    \A j \in 1..Len(replies) :
        (Handled(replies[j].idx) /\ ObjectAnswer(replies[j].r))
            => Echoed(replies[j])

----------------------------------------------------------------------------
\* Further claims about the TCP bridge.

\* A step of the daemon thread, the main thread staying where it is.
DaemonThreadStep(at) == thrPc = at /\ mainPc' = mainPc

\* A step of the main thread, the daemon thread staying where it is.
MainThreadStep(at) == mainPc \in at /\ thrPc' = thrPc

\* C19: after connect there are the main thread and one daemon thread, the
\* daemon thread existing whenever the main thread is in its loop; bytes
\* are sent on the socket and taken from stdin by steps of the daemon thread
\* only, received from the socket and written to stdout by steps of the main
\* thread only.
C19_DirectionOwnership ==
    /\ [](mainPc \in {"recv", "write", "flush"} => thrPc # "unstarted")
    /\ [](thrPc # "unstarted" => (connects = 1 /\ sock # "none"))
    /\ [][/\ sockSent' # sockSent => DaemonThreadStep("send")
          /\ stdinPos' # stdinPos => DaemonThreadStep("readline")
          /\ netPos' # netPos => MainThreadStep({"recv"})
          /\ (stdoutBuf' # stdoutBuf \/ stdoutOut' # stdoutOut)
                 => MainThreadStep({"write", "flush"})]_vars

\* Both threads are in their loops and bytes have gone both ways.
C19_Witness ==
    /\ mainPc \in {"recv", "write", "flush"} /\ thrPc \in {"readline", "send"}
    /\ sockSent # <<>> /\ stdoutOut # <<>>

\* A sendall() of the daemon thread has failed.
SendFailed == "Error forwarding to socket" \in Range(tcpErr)

\* C20: once a socket write has failed or readline() has returned the empty
\* end-of-stream line, the stdin->socket loop is over for good: from then on
\* no line is read from stdin and nothing is sent on the socket.
C20_LoopStopsForGood ==
    /\ [](SendFailed => thrPc = "done")
    /\ [][(thrPc = "readline" /\ thrPc' \notin {"readline", "killed"}
              /\ line' = <<>>) => thrPc' = "done"]_vars
    /\ [][thrPc = "done"
             => /\ thrPc' = "done"
                /\ stdinPos' = stdinPos /\ line' = line
                /\ sockSent' = sockSent]_vars

\* A send has failed, the loop is over, and bytes wait unread on stdin while
\* the main thread is still in its loop.
C20_Witness ==
    /\ SendFailed /\ thrPc = "done"
    /\ StdinAvail # <<>>
    /\ mainPc \in {"recv", "write", "flush"}

\* The socket->stdout loop has ended, and by recv() returning b'': not by an
\* exception, an interrupt or a failed start.
SocketLoopEndedAtEOF ==
    /\ mainPc \in {"finally", "returned"}
    /\ ~interrupted /\ mainExc = "none"
    /\ "Error forwarding to stdio" \notin Range(tcpErr)

\* The stdin->socket loop has ended, and by readline() returning b'': not by
\* a failed send.
StdinLoopEndedAtEOF ==
    /\ thrPc = "done"
    /\ ~SendFailed
    /\ "Socket is not connected." \notin Range(tcpErr)

\* C21: when the socket->stdout loop ends on recv() returning no bytes,
\* every byte received (all the peer sent) is written to stdout and flushed,
\* each chunk being flushed before the next recv(); when the stdin->socket
\* loop ends on end-of-stream, every byte read from stdin (all the parent
\* wrote, a last line without newline included) has been sent on the socket.
C21_LosslessAtLoopEnd ==
    /\ mainPc = "recv" => (stdoutBuf = <<>> /\ stdoutOut = Take(netData, netPos))
    /\ SocketLoopEndedAtEOF
           => (stdoutBuf = <<>> /\ netPos = Len(netData) /\ stdoutOut = netData)
    /\ StdinLoopEndedAtEOF
           => (stdinPos = Len(stdinData) /\ sockSent = stdinData)

\* Both loops have ended at end-of-stream, stdin ending in a line without a
\* newline, and bytes have gone both ways.
C21_Witness ==
    /\ SocketLoopEndedAtEOF /\ StdinLoopEndedAtEOF
    /\ netData # <<>>
    /\ stdinData # <<>> /\ stdinData[Len(stdinData)] # NL

----------------------------------------------------------------------------
\* The url the requests have to go to: the argument up to its last character
\* that is no slash, then /mcp.
Slashless(u) == u = <<>> \/ u[Len(u)] # "/"

FixedUrl(url) ==
    \E k \in 0..Len(urlArg) :
        /\ Slashless(Take(urlArg, k))
        /\ \A m \in (k + 1)..Len(urlArg) : urlArg[m] = "/"
        /\ url = Take(urlArg, k) \o <<"/", "m", "c", "p">>

\* C22: every POST goes to the one fixed url (the url argument without its
\* trailing slashes, followed by /mcp) and its body is the parsed JSON value
\* of its own input line, whatever the earlier lines and responses were.
C22_FixedUrlAndBody ==
    \A k \in 1..Len(posts) :
        /\ FixedUrl(posts[k].url)
        /\ posts[k].idx \in 1..Len(input)
        /\ JsonLoads(Strip(input[posts[k].idx])).ok
        /\ posts[k].body = JsonLoads(Strip(input[posts[k].idx])).v

\* Two different requests have gone out after a failed reply, the url
\* argument having trailing slashes after a path.
C22_Witness ==
    /\ Len(urlArg) > 2 /\ urlArg[Len(urlArg)] = "/"
    /\ Len(posts) >= 2 /\ posts[1].body # posts[2].body
    /\ replies # <<>> /\ Failed(replies[1].r)

----------------------------------------------------------------------------
\* The daemon thread calls sendall(): the step that leaves its send position
\* other than by the death of the process.
SendAttempt == thrPc = "send" /\ thrPc' \notin {"send", "killed"}

\* C23: in no interleaving of the two threads does the daemon thread attempt
\* a send on the socket after the main thread closed it in run()'s finally
\* block.
C23_NoSendAfterClose == [][SendAttempt => sock # "closed"]_vars

\* C24: every socket that connect() created has been closed when the process
\* exits, the socket of a failed connect() included: no socket is open on
\* the path to the nonzero exit.
C24_NoSocketLeftOpen ==
    /\ proc = "exited" => sock \notin {"created", "connected"}
    /\ mainPc = "exit1" => sock \notin {"created", "connected"}

----------------------------------------------------------------------------
\* Claims about GatewayManager.

\* C25: after any sequence of start_gateway and stop_gateway calls, every
\* launched gateway process that is running and was not sent SIGTERM by
\* stop_gateway is the one whose pid the PID file holds: no launched process
\* runs unrecorded.
C25_LaunchedProcessRecorded ==
    \A i \in RunningProcs :
        ~gwProcs[i].termed => gwFile = FilePid(gwProcs[i].pid)

\* C26: right after stop_gateway has returned, True or False, whatever the
\* PID file held, is_gateway_running() returns False and does not raise;
\* and stop_gateway returns True only having sent SIGTERM to the recorded
\* pid and removed the PID file.
C26_StoppedMeansNotRunning ==
    gwLast.op = "stop" =>
        /\ IsGatewayRunning = "False"
        /\ gwLast.ret = "True" =>
               (gwLast.was = "pid" /\ gwLast.sig # 0 /\ gwLast.unlinked
                /\ gwFile = FileAbsent)

----------------------------------------------------------------------------
\* Claims about import_tv_shows (media.py).

\* The k-th add_series call is for a title that, in lower case, is neither
\* in Sonarr at the start of the run nor was added by an earlier call.
NewTitle(k) ==
    /\ Lower(medCalls[k].title) \notin {Lower(t) : t \in medLibrary}
    /\ \A j \in 1..(k - 1) :
           medCalls[j].ok => Lower(medCalls[j].title) # Lower(medCalls[k].title)

\* What holds of the code: the titles are new when get_existing_series() got
\* Sonarr's answer.
NewTitlesWhenLoaded == medLoaded => \A k \in 1..Len(medCalls) : NewTitle(k)

\* C27: within one run add_series is never called for a title whose lower
\* case form is among the titles in Sonarr at the start of the run or among
\* those added earlier in the run; no title is added twice, also when the
\* sources hold a title more than once or in different letter case.
C27_NoTitleAddedTwice == \A k \in 1..Len(medCalls) : NewTitle(k)

\* C28: at every boundary between loop iterations the four counters sum to
\* the number of titles processed so far, each title adding one to exactly
\* one counter; at the end they sum to the number of unique collected
\* titles.
C28_CounterAccounting ==
    /\ medPc = "loop" => MedCounted = medI
    /\ medPc \in {"search", "filter", "add"} => MedCounted = medI
    /\ medPc = "sleep" => MedCounted = medI + 1
    /\ medPc = "done"
           => (MedCounted = Len(medShows)
               /\ MedCounted = Cardinality(Range(medCollected)))

\* The run is over with a title that was added, one that Sonarr refused and
\* one left out as existing, the sources having held a title twice.
C28_Witness ==
    /\ medPc = "done"
    /\ medCount.added >= 1 /\ medCount.skipped >= 1
    /\ \E k \in 1..Len(medCalls) : ~medCalls[k].ok
    /\ Len(medCollected) > Len(medShows)

----------------------------------------------------------------------------
\* Claims about SonarrImporter.import_shows (sonarr_importer.py).

\* The importer slept for `delay` between title i and title i + 1.
DelayAfter(i) == \E k \in 1..Len(sonLog) : sonLog[k] = SonEvent("sleep", i)

\* What holds of the code: the delay follows every title but the last for
\* which add_series was called.
DelayAfterAdd ==
    \A k \in 1..Len(sonLog) :
        (sonLog[k].ev = "search" /\ sonLog[k].i > 1
         /\ SonEvent("add", sonLog[k].i - 1) \in Range(sonLog))
            => DelayAfter(sonLog[k].i - 1)

\* C29: between the processing of two consecutive titles of show_list the
\* importer waits for `delay`, whatever the outcome of the earlier title
\* (added, skipped, not found): the request for a title that is not the
\* first comes after the sleep that follows the title before it.
C29_DelayBetweenTitles ==
    \A k \in 1..Len(sonLog) :
        (sonLog[k].ev = "search" /\ sonLog[k].i > 1)
            => (k > 1 /\ sonLog[k - 1] = SonEvent("sleep", sonLog[k].i - 1))

====
